---- MODULE Spec2Model ----
(***************************************************************************)
(* Model of the Bugman leaderboard backend (src/server.py): the initData   *)
(* check (check_telegram_auth_raw), the POST /score handler with its       *)
(* rate-limit ledger and conditional upsert on the shared SQLite           *)
(* connection, and GET /leaderboard.                                       *)
(*                                                                         *)
(* Text is modelled as a sequence of one-character strings, so that        *)
(* splitting, sorting, percent-escapes and JSON parsing are computed the   *)
(* way the code computes them.                                             *)
(***************************************************************************)
EXTENDS Integers, Sequences, FiniteSets, TLC

(***************************************************************************)
(* Text primitives (Python str operations used by the code)                *)
(***************************************************************************)

\* Characters of the model's alphabet in code-point order (ASCII).
CharOrder ==
    << "\n", " ", "\"", "#", "%", "&", ",", "-",
       "0", "1", "2", "3", "4", "5", "6", "7", "8", "9",
       ":", "=", "A", "B", "C", "D", "E", "F", "K", "N", "P", "W",
       "_", "a", "b", "c", "d", "e", "h", "i", "l", "m", "n", "o", "p",
       "r", "s", "t", "u", "y", "{", "}" >>

\* ord(c): position of c in code-point order.
Ord(c) == CHOOSE i \in 1..Len(CharOrder) : CharOrder[i] = c

Digits == <<"0", "1", "2", "3", "4", "5", "6", "7", "8", "9">>

IsDigit(c) == \E i \in 1..10 : Digits[i] = c

DigitVal(c) == (CHOOSE i \in 1..10 : Digits[i] = c) - 1

\* s[i:] for 1-based i (the empty text when i is past the end).
Drop(s, n) == IF n >= Len(s) THEN << >> ELSE SubSeq(s, n + 1, Len(s))

Take(s, n) == IF n >= Len(s) THEN s ELSE SubSeq(s, 1, n)

\* str.startswith
StartsWith(s, prefix) ==
    /\ Len(s) >= Len(prefix)
    /\ SubSeq(s, 1, Len(prefix)) = prefix

\* Index of the first occurrence of character c in s, 0 if there is none.
RECURSIVE IndexFrom(_, _, _)
IndexFrom(s, c, i) ==
    IF i > Len(s) THEN 0
    ELSE IF s[i] = c THEN i
    ELSE IndexFrom(s, c, i + 1)

IndexOf(s, c) == IndexFrom(s, c, 1)

\* str.split(sep) for a one-character separator: every piece, empty ones too.
RECURSIVE Split(_, _)
Split(s, sep) ==
    LET i == IndexOf(s, sep)
    IN  IF i = 0 THEN << s >>
        ELSE << Take(s, i - 1) >> \o Split(Drop(s, i), sep)

\* str.split(sep, 1): at most one split, at the first separator.
Split1(s, sep) ==
    LET i == IndexOf(s, sep)
    IN  IF i = 0 THEN << s >> ELSE << Take(s, i - 1), Drop(s, i) >>

\* sep.join(parts)
RECURSIVE Join(_, _)
Join(parts, sep) ==
    IF Len(parts) = 0 THEN << >>
    ELSE IF Len(parts) = 1 THEN parts[1]
    ELSE parts[1] \o << sep >> \o Join(Tail(parts), sep)

\* str.strip(): leading and trailing blanks removed.
RECURSIVE LStrip(_)
LStrip(s) ==
    IF Len(s) > 0 /\ s[1] = " " THEN LStrip(Tail(s)) ELSE s

RECURSIVE RStrip(_)
RStrip(s) ==
    IF Len(s) > 0 /\ s[Len(s)] = " " THEN RStrip(SubSeq(s, 1, Len(s) - 1)) ELSE s

Strip(s) == RStrip(LStrip(s))

\* Python's str "<": lexicographic by code point, a proper prefix is smaller.
RECURSIVE StrLess(_, _)
StrLess(a, b) ==
    IF Len(b) = 0 THEN FALSE
    ELSE IF Len(a) = 0 THEN TRUE
    ELSE IF a[1] = b[1] THEN StrLess(Tail(a), Tail(b))
    ELSE Ord(a[1]) < Ord(b[1])

\* str(n) for an int n.
RECURSIVE NatToStr(_)
NatToStr(n) ==
    IF n < 10 THEN << Digits[n + 1] >>
    ELSE NatToStr(n \div 10) \o << Digits[(n % 10) + 1] >>

IntToStr(n) == IF n < 0 THEN << "-" >> \o NatToStr(0 - n) ELSE NatToStr(n)

(***************************************************************************)
(* Python values: None, int, str and dict, as records [t, v]               *)
(***************************************************************************)

PyNone == [t |-> "None", v |-> << >>]

PyInt(n) == [t |-> "int", v |-> n]

PyStr(s) == [t |-> "str", v |-> s]

PyDict(f) == [t |-> "dict", v |-> f]

\* bool(x)
Truthy(x) ==
    CASE x.t = "None" -> FALSE
      [] x.t = "int"  -> x.v # 0
      [] x.t = "str"  -> Len(x.v) > 0
      [] x.t = "dict" -> DOMAIN x.v # {}

\* d.get(k) for a dict d
DictGet(d, k) == IF k \in DOMAIN d.v THEN d.v[k] ELSE PyNone

\* str(x) for None, an int or a str
PyStrOf(x) ==
    CASE x.t = "None" -> << "N", "o", "n", "e" >>
      [] x.t = "int"  -> IntToStr(x.v)
      [] x.t = "str"  -> x.v

(***************************************************************************)
(* json.loads, for the JSON subset the inputs are drawn from: objects      *)
(* with string keys, strings without escapes, integers, null               *)
(***************************************************************************)

JsonFail == [ok |-> FALSE, val |-> PyNone, rest |-> << >>]

JsonOk(val, rest) == [ok |-> TRUE, val |-> val, rest |-> rest]

\* Length of the longest prefix of s made of digits.
RECURSIVE DigitsRun(_)
DigitsRun(s) ==
    IF Len(s) > 0 /\ IsDigit(s[1]) THEN 1 + DigitsRun(Tail(s)) ELSE 0

RECURSIVE StrToNat(_)
StrToNat(s) ==
    IF Len(s) = 0 THEN 0
    ELSE 10 * StrToNat(SubSeq(s, 1, Len(s) - 1)) + DigitVal(s[Len(s)])

\* A string literal: the text between two double quotes.
ParseString(s) ==
    IF Len(s) = 0 \/ s[1] # "\"" THEN JsonFail
    ELSE LET j == IndexOf(Tail(s), "\"")
         IN  IF j = 0 THEN JsonFail
             ELSE JsonOk(PyStr(Take(Tail(s), j - 1)), Drop(Tail(s), j))

\* An integer literal: "0", or a run of digits not starting with "0".
ParseNat(s) ==
    LET n == DigitsRun(s)
    IN  IF n = 0 THEN JsonFail
        ELSE IF s[1] = "0" THEN JsonOk(PyInt(0), Tail(s))
        ELSE JsonOk(PyInt(StrToNat(Take(s, n))), Drop(s, n))

ParseInt(s) ==
    IF Len(s) > 0 /\ s[1] = "-"
    THEN LET r == ParseNat(Tail(s))
         IN  IF r.ok THEN JsonOk(PyInt(0 - r.val.v), r.rest) ELSE JsonFail
    ELSE ParseNat(s)

RECURSIVE ParseValue(_)
RECURSIVE ParseMembers(_, _)

\* The members of an object after "{", up to and including the closing "}".
\* A repeated key keeps its last value.
ParseMembers(s, acc) ==
    LET k == ParseString(LStrip(s))
    IN  IF ~k.ok THEN JsonFail
        ELSE LET s1 == LStrip(k.rest)
             IN  IF Len(s1) = 0 \/ s1[1] # ":" THEN JsonFail
                 ELSE LET val == ParseValue(LStrip(Tail(s1)))
                      IN  IF ~val.ok THEN JsonFail
                          ELSE LET s2  == LStrip(val.rest)
                                   nxt == [x \in DOMAIN acc \cup {k.val.v} |->
                                             IF x = k.val.v THEN val.val ELSE acc[x]]
                               IN  IF Len(s2) = 0 THEN JsonFail
                                   ELSE IF s2[1] = "}" THEN JsonOk(PyDict(nxt), Tail(s2))
                                   ELSE IF s2[1] = "," THEN ParseMembers(Tail(s2), nxt)
                                   ELSE JsonFail

ParseValue(s) ==
    IF Len(s) = 0 THEN JsonFail
    ELSE IF s[1] = "{"
         THEN LET s1 == LStrip(Tail(s))
              IN  IF Len(s1) > 0 /\ s1[1] = "}"
                  THEN JsonOk(PyDict(<< >>), Tail(s1))
                  ELSE ParseMembers(s1, << >>)
    ELSE IF s[1] = "\"" THEN ParseString(s)
    ELSE IF StartsWith(s, << "n", "u", "l", "l" >>) THEN JsonOk(PyNone, Drop(s, 4))
    ELSE ParseInt(s)

\* json.loads(s): ok = FALSE stands for the JSONDecodeError it raises.
JsonLoads(s) ==
    LET r == ParseValue(LStrip(s))
    IN  IF r.ok /\ Len(LStrip(r.rest)) = 0
        THEN [ok |-> TRUE, val |-> r.val]
        ELSE [ok |-> FALSE, val |-> PyNone]

(***************************************************************************)
(* HMAC-SHA256, as a collision-free keyed digest: the digest of (key, msg) *)
(* is rendered as the text "#key#msg", so that two digests are equal       *)
(* exactly when key and message are                                        *)
(***************************************************************************)

HmacSha256(key, msg) == << "#" >> \o key \o << "#" >> \o msg

WebAppData == << "W", "e", "b", "A", "p", "p", "D", "a", "t", "a" >>

\* hmac.new(b"WebAppData", t.encode(), hashlib.sha256).digest()
SecretKey(t) == HmacSha256(WebAppData, t)

\* hmac.new(secret_key, data_check_string.encode(), hashlib.sha256).hexdigest()
CalcHash(t, data_check_string) == HmacSha256(SecretKey(t), data_check_string)

\* hmac.compare_digest
CompareDigest(a, b) == a = b

(***************************************************************************)
(* check_telegram_auth_raw                                                 *)
(***************************************************************************)

HashPrefix == << "h", "a", "s", "h", "=" >>

UserKey == << "u", "s", "e", "r" >>

\* The key of a raw pair: s.split("=", 1)[0]
PairKey(p) == Split1(p, "=")[1]

\* recv_hash after the loop over raw_pairs: the value of the last pair that
\* starts with "hash=", << >> standing for None.
RECURSIVE RecvHash(_, _)
RecvHash(raw_pairs, acc) ==
    IF Len(raw_pairs) = 0 THEN acc
    ELSE LET p == Head(raw_pairs)
         IN  IF Len(p) > 0 /\ StartsWith(p, HashPrefix)
             THEN RecvHash(Tail(raw_pairs), << Split1(p, "=")[2] >>)
             ELSE RecvHash(Tail(raw_pairs), acc)

\* kv_raw after the loop: the non-empty pairs that do not start with "hash=",
\* in their order of arrival.
RECURSIVE KvRaw(_)
KvRaw(raw_pairs) ==
    IF Len(raw_pairs) = 0 THEN << >>
    ELSE LET p == Head(raw_pairs)
         IN  IF Len(p) = 0 \/ StartsWith(p, HashPrefix)
             THEN KvRaw(Tail(raw_pairs))
             ELSE << p >> \o KvRaw(Tail(raw_pairs))

\* Insert p after every element whose key is not greater than p's.
RECURSIVE InsertByKey(_, _)
InsertByKey(sorted, p) ==
    IF Len(sorted) = 0 THEN << p >>
    ELSE IF StrLess(PairKey(p), PairKey(Head(sorted)))
         THEN << p >> \o sorted
         ELSE << Head(sorted) >> \o InsertByKey(Tail(sorted), p)

\* kv_raw.sort(key=lambda s: s.split("=", 1)[0]): stable, by key only.
RECURSIVE SortByKey(_)
SortByKey(kv) ==
    IF Len(kv) = 0 THEN << >>
    ELSE InsertByKey(SortByKey(SubSeq(kv, 1, Len(kv) - 1)), kv[Len(kv)])

\* data_check_string = "\n".join(kv_raw), kv_raw sorted
DataCheckString(init_data) == Join(SortByKey(KvRaw(Split(init_data, "&"))), "\n")

\* user_raw: the value of the first sorted pair whose key is "user".
\* [raised |-> TRUE] is the IndexError of s.split("=", 1)[1] on a pair "user"
\* that holds no "="; found = FALSE is None.
UserRaw(kv_sorted) ==
    LET idx == { i \in 1..Len(kv_sorted) : PairKey(kv_sorted[i]) = UserKey }
    IN  IF idx = {} THEN [raised |-> FALSE, found |-> FALSE, text |-> << >>]
        ELSE LET i     == CHOOSE j \in idx : \A k \in idx : j <= k
                 parts == Split1(kv_sorted[i], "=")
             IN  IF Len(parts) < 2
                 THEN [raised |-> TRUE, found |-> FALSE, text |-> << >>]
                 ELSE [raised |-> FALSE, found |-> TRUE, text |-> parts[2]]

AuthResult(ok, user, reason) == [ok |-> ok, user |-> user, reason |-> reason]

\* TryTokens gone wrong: only the token at position i is tried.
TryTokens_FirstOnly(tokens, i, data_check_string, recv_hash, user_raw) ==
    IF i > Len(tokens) THEN AuthResult(FALSE, PyNone, "hash_mismatch")
    ELSE IF CompareDigest(CalcHash(tokens[i], data_check_string), recv_hash)
         THEN IF user_raw.found /\ Len(user_raw.text) > 0
              THEN LET j == JsonLoads(user_raw.text)
                   IN  IF j.ok THEN AuthResult(TRUE, j.val, "ok")
                       ELSE AuthResult(FALSE, PyNone, "exception")
              ELSE AuthResult(TRUE, PyNone, "ok")
         ELSE AuthResult(FALSE, PyNone, "hash_mismatch")

\* The loop over tokens, from position i: the first token whose digest of the
\* data check string equals recv_hash ends it; the user text is decoded only
\* then, and a text that json.loads rejects ends the call in the except branch.
RECURSIVE TryTokens(_, _, _, _, _)
TryTokens(tokens, i, data_check_string, recv_hash, user_raw) ==
    IF i > Len(tokens) THEN AuthResult(FALSE, PyNone, "hash_mismatch")
    ELSE IF CompareDigest(CalcHash(tokens[i], data_check_string), recv_hash)
         THEN IF user_raw.found /\ Len(user_raw.text) > 0
              THEN LET j == JsonLoads(user_raw.text)
                   IN  IF j.ok THEN AuthResult(TRUE, j.val, "ok")
                       ELSE AuthResult(FALSE, PyNone, "exception")
              ELSE AuthResult(TRUE, PyNone, "ok")
         ELSE TryTokens(tokens, i + 1, data_check_string, recv_hash, user_raw)

\* check_telegram_auth_raw gone wrong: the user value is decoded and returned
\* without the hash having been compared.
check_telegram_auth_raw_NoCompare(init_data, tokens) ==
    LET raw_pairs == Split(init_data, "&")
        recv_hash == RecvHash(raw_pairs, << >>)
        user_raw  == UserRaw(SortByKey(KvRaw(raw_pairs)))
    IN  IF recv_hash = << >> \/ Len(recv_hash[1]) = 0
        THEN AuthResult(FALSE, PyNone, "no_hash")
        ELSE IF user_raw.raised
        THEN AuthResult(FALSE, PyNone, "exception")
        ELSE IF user_raw.found /\ Len(user_raw.text) > 0
        THEN LET j == JsonLoads(user_raw.text)
             IN  IF j.ok THEN AuthResult(TRUE, j.val, "ok")
                 ELSE AuthResult(FALSE, PyNone, "exception")
        ELSE AuthResult(TRUE, PyNone, "ok")

check_telegram_auth_raw(init_data, tokens) ==
    LET raw_pairs == Split(init_data, "&")
        recv_hash == RecvHash(raw_pairs, << >>)
        kv_sorted == SortByKey(KvRaw(raw_pairs))
        user_raw  == UserRaw(kv_sorted)
    IN  IF recv_hash = << >> \/ Len(recv_hash[1]) = 0
        THEN AuthResult(FALSE, PyNone, "no_hash")
        ELSE IF user_raw.raised
        THEN AuthResult(FALSE, PyNone, "exception")
        ELSE TryTokens(tokens, 1, Join(kv_sorted, "\n"), recv_hash[1], user_raw)

(***************************************************************************)
(* Configuration: the credentials read from the environment                *)
(***************************************************************************)

\* Optional text: << >> is None (the variable is unset), << s >> is the text s.
None == << >>

Some(s) == << s >>

K1 == << "K", "1" >>

K2 == << "K", "2" >>

\* A credential that is never configured.
K3 == << "K", "3" >>

\* [t.strip() for t in env_tokens.split(",") if t.strip()]
RECURSIVE StripNonEmpty(_)
StripNonEmpty(parts) ==
    IF Len(parts) = 0 THEN << >>
    ELSE IF Len(Strip(Head(parts))) > 0
         THEN << Strip(Head(parts)) >> \o StripNonEmpty(Tail(parts))
         ELSE StripNonEmpty(Tail(parts))

\* tokens, as post_score builds the list from BOT_TOKENS, else BOT_TOKEN.
ConfiguredTokens(e) ==
    IF e.BOT_TOKENS # None /\ Len(e.BOT_TOKENS[1]) > 0
    THEN StripNonEmpty(Split(e.BOT_TOKENS[1], ","))
    ELSE IF e.BOT_TOKEN # None /\ Len(e.BOT_TOKEN[1]) > 0
         THEN << e.BOT_TOKEN[1] >>
         ELSE << >>

\* The environments the service is started in: one credential, two in
\* rotation, a list holding only a separator, none at all.
Envs ==
    { [BOT_TOKENS |-> None, BOT_TOKEN |-> Some(K2)],
      [BOT_TOKENS |-> Some(K2 \o << ",", " " >> \o K1), BOT_TOKEN |-> None],
      [BOT_TOKENS |-> Some(<< "," >>), BOT_TOKEN |-> Some(K1)],
      [BOT_TOKENS |-> None, BOT_TOKEN |-> None] }

(***************************************************************************)
(* Inputs: the credential blobs clients submit                             *)
(***************************************************************************)

\* Percent-encoding of one character, as the issuing platform's client
\* renders a field value (encodeURIComponent).
QuoteChar(c) ==
    CASE c = "{"  -> << "%", "7", "B" >>
      [] c = "}"  -> << "%", "7", "D" >>
      [] c = "\"" -> << "%", "2", "2" >>
      [] c = ":"  -> << "%", "3", "A" >>
      [] c = ","  -> << "%", "2", "C" >>
      [] c = " "  -> << "%", "2", "0" >>
      [] OTHER    -> << c >>

RECURSIVE Quote(_)
Quote(s) == IF Len(s) = 0 THEN << >> ELSE QuoteChar(Head(s)) \o Quote(Tail(s))

\* The pair "key=value".
Pair(k, val) == k \o << "=" >> \o val

\* The blob text: the pairs in the given order, then the hash pair.
InitDataText(pairs, hash) == Join(pairs \o << HashPrefix \o hash >>, "&")

\* A blob whose signature is computed by the holder of credential t over the
\* pairs as they appear on the wire.
SignedRaw(pairs, t) ==
    InitDataText(pairs, CalcHash(t, Join(SortByKey(pairs), "\n")))

AuthDate == Pair(<< "a", "u", "t", "h", "_", "d", "a", "t", "e" >>, << "1" >>)

UserPair(json) == Pair(UserKey, json)

JId42 == << "{", "\"", "i", "d", "\"", ":", "4", "2", "}" >>

JId42Bob == << "{", "\"", "i", "d", "\"", ":", "4", "2", ",", "\"", "u", "s", "e", "r", "n", "a", "m", "e", "\"", ":", "\"", "b", "o", "b", "\"", "}" >>

JId7 == << "{", "\"", "i", "d", "\"", ":", "7", "}" >>

JId9 == << "{", "\"", "i", "d", "\"", ":", "9", "}" >>

JNoId == << "{", "\"", "u", "s", "e", "r", "n", "a", "m", "e", "\"", ":", "\"", "b", "o", "b", "\"", "}" >>

JEmptyObj == << "{", "}" >>

JNullId == << "{", "\"", "i", "d", "\"", ":", "n", "u", "l", "l", "}" >>

JEmptyId == << "{", "\"", "i", "d", "\"", ":", "\"", "\"", "}" >>

JAbcId == << "{", "\"", "i", "d", "\"", ":", "\"", "a", "b", "c", "\"", "}" >>

JTruncated == << "{", "\"", "i", "d", "\"", ":" >>

JNumber == << "4", "2" >>

\* The keys of the user object that post_score reads.
IdKey == << "i", "d" >>

UsernameKey == << "u", "s", "e", "r", "n", "a", "m", "e" >>

FirstNameKey == << "f", "i", "r", "s", "t", "_", "n", "a", "m", "e" >>

LastNameKey == << "l", "a", "s", "t", "_", "n", "a", "m", "e" >>

\* JSON texts of users with names: "text", a member, an object.
JStr(s) == << "\"" >> \o s \o << "\"" >>

JMember(k, json) == JStr(k) \o << ":" >> \o json

JObject(members) == << "{" >> \o Join(members, ",") \o << "}" >>

NameAl == << "a", "l" >>

NameLee == << "l", "e", "e" >>

\* A username of 12 characters.
NameLong == << "b", "o", "b", "b", "o", "b", "b", "o", "b", "b", "o", "b" >>

JFirst42 == JObject(<< JMember(IdKey, << "4", "2" >>), JMember(FirstNameKey, JStr(NameAl)) >>)

JLast42 == JObject(<< JMember(IdKey, << "4", "2" >>), JMember(LastNameKey, JStr(NameLee)) >>)

JEmptyUser42 ==
    JObject(<< JMember(IdKey, << "4", "2" >>), JMember(UsernameKey, JStr(<< >>)),
               JMember(FirstNameKey, JStr(NameAl)) >>)

JLong42 == JObject(<< JMember(IdKey, << "4", "2" >>), JMember(UsernameKey, JStr(NameLong)) >>)

JId12345 == JObject(<< JMember(IdKey, << "1", "2", "3", "4", "5" >>) >>)

\* The blobs, by name.
InitData(b) ==
    CASE b = "id42"      -> SignedRaw(<< UserPair(JId42), AuthDate >>, K1)
      [] b = "id42bob"   -> SignedRaw(<< AuthDate, UserPair(JId42Bob) >>, K1)
      [] b = "id42k2"    -> SignedRaw(<< UserPair(JId42), AuthDate >>, K2)
      [] b = "id7"       -> SignedRaw(<< UserPair(JId7), AuthDate >>, K1)
      \* the documented format: the user value percent-encoded on the wire,
      \* the signature computed over the decoded values
      [] b = "doc42"     -> InitDataText(<< UserPair(Quote(JId42)), AuthDate >>,
                               CalcHash(K1, Join(SortByKey(<< UserPair(JId42), AuthDate >>), "\n")))
      \* the user value percent-encoded, the signature computed over the wire text
      [] b = "enc42"     -> SignedRaw(<< UserPair(Quote(JId42)), AuthDate >>, K1)
      \* forged: signed with a credential that is not configured
      [] b = "forged9"   -> SignedRaw(<< UserPair(JId9), AuthDate >>, K3)
      \* tampered: the hash of "id42" kept, the user value replaced
      [] b = "tamper9"   -> InitDataText(<< UserPair(JId9), AuthDate >>,
                               CalcHash(K1, Join(SortByKey(<< UserPair(JId42), AuthDate >>), "\n")))
      [] b = "nohash"    -> Join(<< UserPair(JId9), AuthDate >>, "&")
      [] b = "emptyhash" -> InitDataText(<< UserPair(JId9), AuthDate >>, << >>)
      [] b = "nouser"    -> SignedRaw(<< AuthDate >>, K1)
      [] b = "userNoEq"  -> SignedRaw(<< UserKey, AuthDate >>, K1)
      [] b = "noid"      -> SignedRaw(<< UserPair(JNoId), AuthDate >>, K1)
      [] b = "emptyobj"  -> SignedRaw(<< UserPair(JEmptyObj), AuthDate >>, K1)
      [] b = "badjson"   -> SignedRaw(<< UserPair(JTruncated), AuthDate >>, K1)
      [] b = "number"    -> SignedRaw(<< UserPair(JNumber), AuthDate >>, K1)
      [] b = "nullid"    -> SignedRaw(<< UserPair(JNullId), AuthDate >>, K1)
      [] b = "emptyid"   -> SignedRaw(<< UserPair(JEmptyId), AuthDate >>, K1)
      [] b = "abcid"     -> SignedRaw(<< UserPair(JAbcId), AuthDate >>, K1)
      [] b = "first42"   -> SignedRaw(<< UserPair(JFirst42), AuthDate >>, K1)
      [] b = "last42"    -> SignedRaw(<< UserPair(JLast42), AuthDate >>, K1)
      [] b = "emptyuser42" -> SignedRaw(<< UserPair(JEmptyUser42), AuthDate >>, K1)
      [] b = "long42"    -> SignedRaw(<< UserPair(JLong42), AuthDate >>, K1)
      [] b = "id12345"   -> SignedRaw(<< UserPair(JId12345), AuthDate >>, K1)

\* Blobs of well-formed identities, of failed authentication, of odd identities.
GoodBlobs == { "id42", "id42bob", "id42k2", "id7" }

RejectBlobs == { "doc42", "enc42", "forged9", "tamper9", "nohash", "emptyhash",
                 "nouser", "userNoEq", "noid", "emptyobj", "badjson", "number" }

OddIdBlobs == { "nullid", "emptyid", "abcid" }

AllBlobs == { "id42", "id42bob", "id7", "doc42", "forged9" } \cup OddIdBlobs

\* Blobs of users with and without names.
NameBlobs == { "id42", "id42bob", "first42", "last42", "emptyuser42", "long42", "id12345" }

\* The result of the check for every environment and blob.
AuthTable ==
    [e \in Envs |-> [b \in AllBlobs \cup NameBlobs |->
        check_telegram_auth_raw(InitData(b), ConfiguredTokens(e))]]

(***************************************************************************)
(* Bounds of the model                                                     *)
(***************************************************************************)

\* Requests that can be in flight at once.
NumReq == 2

\* Clock ticks per second, and the last tick of the clock.
TicksPerSecond == 2

MaxTime == 2

\* Requests served in one run.
MaxRequests == 3

\* The minimum interval between two submissions of a player, in seconds.
MIN_INTERVAL_SECONDS == 1

Req == 1..NumReq

\* The scores clients claim.
Scores == { -1, 0, 80, 100 }

(***************************************************************************)
(* The players table                                                       *)
(***************************************************************************)

\* A row of players; a table is the sequence of its rows in insertion order.
Row(id, username, display_name, best_score, updated_at) ==
    [id |-> id, username |-> username, display_name |-> display_name,
     best_score |-> best_score, updated_at |-> updated_at]

\* Position of the row with primary key id, 0 if there is none.
FindRow(table, id) ==
    IF \E i \in 1..Len(table) : table[i].id = id
    THEN CHOOSE i \in 1..Len(table) : table[i].id = id
    ELSE 0

\* PrevBest gone wrong: the current best is not read, 0 is assumed.
PrevBest_AssumesZero(table, id) == 0

\* SELECT best_score FROM players WHERE id = ? ; row[0] if row else 0
PrevBest(table, id) ==
    LET i == FindRow(table, id) IN IF i = 0 THEN 0 ELSE table[i].best_score

\* INSERT ... ON CONFLICT(id) DO UPDATE SET username, display_name,
\* best_score, updated_at: the query of the branch score > prev_best.
UpsertAll(table, row) ==
    LET i == FindRow(table, row.id)
    IN  IF i = 0 THEN Append(table, row)
        ELSE [table EXCEPT ![i] = row]

\* UpsertNames gone wrong: the conflict clause of the first query is used in
\* both branches.
UpsertNames_SetsAll(table, row) == UpsertAll(table, row)

\* INSERT ... ON CONFLICT(id) DO UPDATE SET username, display_name: the
\* query of the other branch.
UpsertNames(table, row) ==
    LET i == FindRow(table, row.id)
    IN  IF i = 0 THEN Append(table, row)
        ELSE [table EXCEPT ![i].username = row.username,
                           ![i].display_name = row.display_name]

(***************************************************************************)
(* post_score: the part before the first await                             *)
(***************************************************************************)

\* s[-4:]
Last4(s) == IF Len(s) <= 4 THEN s ELSE SubSeq(s, Len(s) - 3, Len(s))

\* username or first_name or last_name or f"Player {user_id[-4:]}"
DisplayName(user, user_id) ==
    LET username   == DictGet(user, UsernameKey)
        first_name == DictGet(user, FirstNameKey)
        last_name  == DictGet(user, LastNameKey)
    IN  IF Truthy(username) THEN username
        ELSE IF Truthy(first_name) THEN first_name
        ELSE IF Truthy(last_name) THEN last_name
        ELSE PyStr(<< "P", "l", "a", "y", "e", "r", " " >> \o Last4(user_id))

\* How the check "not ok or not user or 'id' not in user" ends: "reject"
\* (401), "raise" (the TypeError of "in" on an int, caught as 500) or "pass".
IdentityCheck(auth) ==
    IF ~auth.ok \/ ~Truthy(auth.user) THEN "reject"
    ELSE IF auth.user.t = "int" THEN "raise"
    ELSE IF auth.user.t = "dict" /\ IdKey \in DOMAIN auth.user.v THEN "pass"
    ELSE "reject"

\* TooSoon gone wrong: the ledger is not consulted.
TooSoon_IgnoresLedger(last_scores, user_id, now_dt) == FALSE

\* last and (now_dt - last).total_seconds() < 1
TooSoon(last_scores, user_id, now_dt) ==
    /\ user_id \in DOMAIN last_scores
    /\ now_dt - last_scores[user_id] < MIN_INTERVAL_SECONDS * TicksPerSecond

(***************************************************************************)
(* Responses                                                               *)
(***************************************************************************)

NoMe == [id |-> << >>, display_name |-> PyNone, username |-> PyNone, best_score |-> 0]

\* rate_limited = FALSE: the body carries no such field.
Response(status, ok, error, reason, me) ==
    [status |-> status, ok |-> ok, error |-> error, reason |-> reason,
     rate_limited |-> FALSE, me |-> me]

NoResponse == Response(0, FALSE, "", "", NoMe)

InvalidInitData(reason) == Response(401, FALSE, "invalid_init_data", reason, NoMe)

TooManyRequests == Response(429, FALSE, "too_many_requests", "rate_limited", NoMe)

ServerError == Response(500, FALSE, "server_error", "", NoMe)

Ok200(me) == Response(200, TRUE, "", "", me)

(***************************************************************************)
(* State                                                                   *)
(***************************************************************************)

VARIABLES
    env,          \* BOT_TOKENS and BOT_TOKEN of the process environment
    clock,        \* datetime.utcnow(), in ticks
    LAST_SCORES,  \* the module-level dict: user id -> time of the last passed submission
    db,           \* players as the shared connection sees it (pending writes included)
    disk,         \* players as last committed
    pc,           \* where each request's handler stands
    rq,           \* each request's payload and the handler's locals
    resp,         \* each request's response, once it has one
    lb,           \* the last answer of GET /leaderboard
    started,      \* history: the number of requests begun
    accepted,     \* history: user id -> greatest score of a submission answered 200
    failed,       \* history: user ids of submissions that met a storage error
    attempts,     \* history: user id -> the submissions that reached the rate limiter, in order
    canon         \* the last call of check_telegram_auth_raw on a blob and a reordering of it

vars == << env, clock, LAST_SCORES, db, disk, pc, rq, resp, lb, started, accepted, failed,
           attempts, canon >>

NoRq ==
    [blob |-> "", score |-> 0, user_id |-> << >>, username |-> PyNone,
     display_name |-> PyNone, now_dt |-> 0, prev_best |-> 0, kind |-> "",
     best |-> 0, limited |-> FALSE, row0 |-> << >>]

NoLb == [limit |-> 0, offset |-> 0, items |-> << >>]

\* No call of check_telegram_auth_raw recorded yet.
NoCanon ==
    [pairs |-> << >>, reordered |-> << >>, data_check_string |-> << >>,
     data_check_string_reordered |-> << >>,
     result |-> AuthResult(FALSE, PyNone, ""),
     result_reordered |-> AuthResult(FALSE, PyNone, "")]

\* The row of id in table, as an optional value.
RowOf(table, id) ==
    LET i == FindRow(table, id) IN IF i = 0 THEN << >> ELSE << table[i] >>

Init ==
    /\ env \in Envs
    /\ clock = 0
    /\ LAST_SCORES = << >>
    /\ db = << >>
    /\ disk = << >>
    /\ pc = [r \in Req |-> "idle"]
    /\ rq = [r \in Req |-> NoRq]
    /\ resp = [r \in Req |-> NoResponse]
    /\ lb = NoLb
    /\ started = 0
    /\ accepted = << >>
    /\ failed = {}
    /\ attempts = << >>
    /\ canon = NoCanon

\* f with key k set to x (a Python dict assignment).
DictSet(f, k, x) == [y \in DOMAIN f \cup {k} |-> IF y = k THEN x ELSE f[y]]

\* hist with one more submission of user_id at the limiter: its time (now_dt)
\* and whether it was turned away.
Attempted(hist, user_id, now_dt, limited) ==
    DictSet(hist, user_id,
            (IF user_id \in DOMAIN hist THEN hist[user_id] ELSE << >>)
                \o << [at |-> now_dt, limited |-> limited] >>)

(***************************************************************************)
(* POST /score                                                             *)
(***************************************************************************)

\* Begin gone wrong: a submission inside the minimum interval is marked as
\* limited and goes on to the store all the same.
Begin_LimitedGoesOn(r, b, s) ==
    /\ pc[r] \in { "idle", "done" }
    /\ \A r2 \in 1..(r - 1) : pc[r2] \notin { "idle", "done" }
    /\ started < MaxRequests
    /\ started' = started + 1
    /\ LET auth         == AuthTable[env][b]
           check        == IdentityCheck(auth)
           user_id      == PyStrOf(DictGet(auth.user, IdKey))
           username     == DictGet(auth.user, UsernameKey)
           display_name == DisplayName(auth.user, user_id)
           base         == [NoRq EXCEPT !.blob = b, !.score = s]
       IN  IF check = "reject"
           THEN /\ pc' = [pc EXCEPT ![r] = "done"]
                /\ rq' = [rq EXCEPT ![r] = base]
                /\ resp' = [resp EXCEPT ![r] = InvalidInitData(auth.reason)]
                /\ UNCHANGED << LAST_SCORES, attempts >>
           ELSE IF check = "raise"
           THEN /\ pc' = [pc EXCEPT ![r] = "done"]
                /\ rq' = [rq EXCEPT ![r] = base]
                /\ resp' = [resp EXCEPT ![r] = ServerError]
                /\ UNCHANGED << LAST_SCORES, attempts >>
           ELSE LET mine == [base EXCEPT !.user_id = user_id, !.username = username,
                                         !.display_name = display_name,
                                         !.now_dt = clock,
                                         !.row0 = RowOf(db, user_id)]
                IN  IF TooSoon(LAST_SCORES, user_id, clock)
                    THEN /\ pc' = [pc EXCEPT ![r] = "select"]
                         /\ rq' = [rq EXCEPT ![r] = [mine EXCEPT !.limited = TRUE]]
                         /\ resp' = [resp EXCEPT ![r] = NoResponse]
                         /\ attempts' = Attempted(attempts, user_id, clock, TRUE)
                         /\ UNCHANGED LAST_SCORES
                    ELSE /\ pc' = [pc EXCEPT ![r] = "select"]
                         /\ rq' = [rq EXCEPT ![r] = mine]
                         /\ LAST_SCORES' = DictSet(LAST_SCORES, user_id, clock)
                         /\ attempts' = Attempted(attempts, user_id, clock, FALSE)
                         /\ resp' = [resp EXCEPT ![r] = NoResponse]
    /\ UNCHANGED << env, clock, db, disk, lb, accepted, failed, canon >>

\* The handler up to its first await: authentication, identity, rate limit.
\* A slot whose response is out serves the next request, the first such slot.
Begin(r, b, s) ==
    /\ pc[r] \in { "idle", "done" }
    /\ \A r2 \in 1..(r - 1) : pc[r2] \notin { "idle", "done" }
    /\ started < MaxRequests
    /\ started' = started + 1
    /\ LET auth         == AuthTable[env][b]
           check        == IdentityCheck(auth)
           user_id      == PyStrOf(DictGet(auth.user, IdKey))
           username     == DictGet(auth.user, UsernameKey)
           display_name == DisplayName(auth.user, user_id)
           base         == [NoRq EXCEPT !.blob = b, !.score = s]
       IN  IF check = "reject"
           THEN /\ pc' = [pc EXCEPT ![r] = "done"]
                /\ rq' = [rq EXCEPT ![r] = base]
                /\ resp' = [resp EXCEPT ![r] = InvalidInitData(auth.reason)]
                /\ UNCHANGED << LAST_SCORES, attempts >>
           ELSE IF check = "raise"
           THEN /\ pc' = [pc EXCEPT ![r] = "done"]
                /\ rq' = [rq EXCEPT ![r] = base]
                /\ resp' = [resp EXCEPT ![r] = ServerError]
                /\ UNCHANGED << LAST_SCORES, attempts >>
           ELSE LET mine == [base EXCEPT !.user_id = user_id, !.username = username,
                                         !.display_name = display_name,
                                         !.now_dt = clock,
                                         !.row0 = RowOf(db, user_id)]
                IN  IF TooSoon(LAST_SCORES, user_id, clock)
                    THEN /\ pc' = [pc EXCEPT ![r] = "done"]
                         /\ rq' = [rq EXCEPT ![r] = [mine EXCEPT !.limited = TRUE]]
                         /\ resp' = [resp EXCEPT ![r] = TooManyRequests]
                         /\ attempts' = Attempted(attempts, user_id, clock, TRUE)
                         /\ UNCHANGED LAST_SCORES
                    ELSE /\ pc' = [pc EXCEPT ![r] = "select"]
                         /\ rq' = [rq EXCEPT ![r] = mine]
                         /\ LAST_SCORES' = DictSet(LAST_SCORES, user_id, clock)
                         /\ attempts' = Attempted(attempts, user_id, clock, FALSE)
                         /\ resp' = [resp EXCEPT ![r] = NoResponse]
    /\ UNCHANGED << env, clock, db, disk, lb, accepted, failed, canon >>

\* Select gone wrong: the claimed score is written and returned whatever the
\* best that was read.
Select_AlwaysWrites(r) ==
    /\ pc[r] = "select"
    /\ rq' = [rq EXCEPT ![r].prev_best = PrevBest(db, rq[r].user_id),
                         ![r].kind = "all",
                         ![r].best = rq[r].score]
    /\ pc' = [pc EXCEPT ![r] = "execute"]
    /\ UNCHANGED << env, clock, LAST_SCORES, db, disk, resp, lb, started, accepted, failed,
                    attempts, canon >>

\* SELECT best_score, then the choice of the query and of best.
Select(r) ==
    /\ pc[r] = "select"
    /\ LET prev_best == PrevBest(db, rq[r].user_id)
       IN  rq' = [rq EXCEPT ![r].prev_best = prev_best,
                            ![r].kind = IF rq[r].score > prev_best THEN "all" ELSE "names",
                            ![r].best = IF rq[r].score > prev_best THEN rq[r].score
                                        ELSE prev_best]
    /\ pc' = [pc EXCEPT ![r] = "execute"]
    /\ UNCHANGED << env, clock, LAST_SCORES, db, disk, resp, lb, started, accepted, failed,
                    attempts, canon >>

\* Params gone wrong: the claimed score is passed in both branches.
Params_AlwaysScore(q) ==
    Row(q.user_id, q.username, q.display_name, q.score, q.now_dt)

\* The row the handler passes as params.
Params(q) ==
    Row(q.user_id, q.username, q.display_name,
        IF q.kind = "all" THEN q.score ELSE q.prev_best, q.now_dt)

\* await db.execute(query, params)
Execute(r) ==
    /\ pc[r] = "execute"
    /\ db' = IF rq[r].kind = "all" THEN UpsertAll(db, Params(rq[r]))
             ELSE UpsertNames(db, Params(rq[r]))
    /\ pc' = [pc EXCEPT ![r] = "commit"]
    /\ UNCHANGED << env, clock, LAST_SCORES, disk, rq, resp, lb, started, accepted, failed,
                    attempts, canon >>

Max2(a, b) == IF a >= b THEN a ELSE b

\* await db.commit(), then the 200 response
Commit(r) ==
    /\ pc[r] = "commit"
    /\ disk' = db
    /\ pc' = [pc EXCEPT ![r] = "done"]
    /\ resp' = [resp EXCEPT ![r] =
                   Ok200([id |-> rq[r].user_id, display_name |-> rq[r].display_name,
                          username |-> rq[r].username, best_score |-> rq[r].best])]
    /\ accepted' = DictSet(accepted, rq[r].user_id,
                       IF rq[r].user_id \in DOMAIN accepted
                       THEN Max2(accepted[rq[r].user_id], rq[r].score)
                       ELSE rq[r].score)
    /\ UNCHANGED << env, clock, LAST_SCORES, db, rq, lb, started, failed, attempts, canon >>

\* An await on the store raises: the except branch answers 500.
Raise500(r) ==
    /\ pc' = [pc EXCEPT ![r] = "done"]
    /\ resp' = [resp EXCEPT ![r] = ServerError]
    /\ failed' = failed \cup { rq[r].user_id }
    /\ UNCHANGED << env, clock, LAST_SCORES, rq, lb, started, accepted, attempts, canon >>

\* The SELECT fails.
SelectFail(r) ==
    /\ pc[r] = "select"
    /\ Raise500(r)
    /\ UNCHANGED << db, disk >>

\* The INSERT fails: the statement changes nothing.
ExecuteFail(r) ==
    /\ pc[r] = "execute"
    /\ Raise500(r)
    /\ UNCHANGED << db, disk >>

\* The COMMIT fails. SQLite either keeps the transaction open (the pending
\* writes stay on the connection) or rolls it back, depending on the error.
CommitFail(r) ==
    /\ pc[r] = "commit"
    /\ Raise500(r)
    /\ db' \in { db, disk }
    /\ UNCHANGED disk

\* Time passes.
Tick ==
    /\ clock < MaxTime
    /\ clock' = clock + 1
    /\ UNCHANGED << env, LAST_SCORES, db, disk, pc, rq, resp, lb, started, accepted, failed,
                    attempts, canon >>

(***************************************************************************)
(* GET /leaderboard                                                        *)
(***************************************************************************)

LIMIT_CAP == 200

\* Insert row before the first row of smaller best_score: rows of equal
\* best_score keep their table order.
RECURSIVE InsertDesc(_, _)
InsertDesc(sorted, row) ==
    IF Len(sorted) = 0 THEN << row >>
    ELSE IF Head(sorted).best_score < row.best_score
         THEN << row >> \o sorted
         ELSE << Head(sorted) >> \o InsertDesc(Tail(sorted), row)

\* ORDER BY best_score DESC
RECURSIVE OrderByBestDesc(_)
OrderByBestDesc(table) ==
    IF Len(table) = 0 THEN << >>
    ELSE InsertDesc(OrderByBestDesc(SubSeq(table, 1, Len(table) - 1)), table[Len(table)])

\* LIMIT ? OFFSET ? as SQLite evaluates them: a negative LIMIT is no limit,
\* a negative OFFSET is 0.
LimitOffset(rows, limit, offset) ==
    LET off   == IF offset < 0 THEN 0 ELSE offset
        rest  == Drop(rows, off)
    IN  IF limit < 0 THEN rest ELSE Take(rest, limit)

Item(row) ==
    [display_name |-> row.display_name, username |-> row.username,
     best_score |-> row.best_score]

get_leaderboard(table, limit, offset) ==
    LET lim  == IF limit > LIMIT_CAP THEN LIMIT_CAP ELSE limit
        rows == LimitOffset(OrderByBestDesc(table), lim, offset)
    IN  [i \in 1..Len(rows) |-> Item(rows[i])]

GetLeaderboard(limit, offset) ==
    /\ lb' = [limit |-> limit, offset |-> offset,
              items |-> get_leaderboard(db, limit, offset)]
    /\ UNCHANGED << env, clock, LAST_SCORES, db, disk, pc, rq, resp, started,
                    accepted, failed, attempts, canon >>

(***************************************************************************)
(* Specifications                                                          *)
(***************************************************************************)

\* The blobs submitted under Spec.
Blobs == { "id42", "id42bob", "id7", "doc42", "forged9" }

Next ==
    \/ \E r \in Req, b \in Blobs, s \in Scores : Begin(r, b, s)
    \/ \E r \in Req : Select(r)
    \/ \E r \in Req : SelectFail(r)
    \/ \E r \in Req : Execute(r)
    \/ \E r \in Req : ExecuteFail(r)
    \/ \E r \in Req : Commit(r)
    \/ \E r \in Req : CommitFail(r)
    \/ Tick

Spec == Init /\ [][Next]_vars

\* No request is in flight.
Quiet == \A r \in Req : pc[r] \in { "idle", "done" }

\* Submissions that do not overlap: a request begins when none is in flight.
NextSeq ==
    \/ \E r \in Req, b \in Blobs, s \in Scores : Quiet /\ Begin(r, b, s)
    \/ \E r \in Req : Select(r)
    \/ \E r \in Req : SelectFail(r)
    \/ \E r \in Req : Execute(r)
    \/ \E r \in Req : ExecuteFail(r)
    \/ \E r \in Req : Commit(r)
    \/ \E r \in Req : CommitFail(r)
    \/ Tick

SpecSeq == Init /\ [][NextSeq]_vars

\* Non-overlapping submissions of every blob of the model.
NextBlobs ==
    \/ \E r \in Req, b \in AllBlobs, s \in Scores : Quiet /\ Begin(r, b, s)
    \/ \E r \in Req : Select(r)
    \/ \E r \in Req : SelectFail(r)
    \/ \E r \in Req : Execute(r)
    \/ \E r \in Req : ExecuteFail(r)
    \/ \E r \in Req : Commit(r)
    \/ \E r \in Req : CommitFail(r)
    \/ Tick

SpecBlobs == Init /\ [][NextBlobs]_vars

\* Non-overlapping submissions of the blobs of users with and without names.
NameScores == { 80, 100 }

NextNames ==
    \/ \E r \in Req, b \in NameBlobs, s \in NameScores : Quiet /\ Begin(r, b, s)
    \/ \E r \in Req : Select(r)
    \/ \E r \in Req : SelectFail(r)
    \/ \E r \in Req : Execute(r)
    \/ \E r \in Req : ExecuteFail(r)
    \/ \E r \in Req : Commit(r)
    \/ \E r \in Req : CommitFail(r)
    \/ Tick

SpecNames == Init /\ [][NextNames]_vars

\* The leaderboard as a function of the table: tables of up to MaxRows
\* players, read with every limit and offset of the sets below.
MaxRows == 4

BoardScores == { 10, 50, 90 }

Limits == { -1, 0, 1, 2, 200, 201, 10000 }

Offsets == { -1, 0, 1, 5 }

BoardRow(i, score) ==
    Row(IntToStr(i), PyNone, PyStr(<< "P", "l", "a", "y", "e", "r", " " >> \o IntToStr(i)), score, 0)

InitBoard ==
    /\ env \in Envs
    /\ clock = 0
    /\ LAST_SCORES = << >>
    /\ \E n \in 0..MaxRows : \E f \in [1..n -> BoardScores] :
          /\ db = [i \in 1..n |-> BoardRow(i, f[i])]
          /\ disk = db
    /\ pc = [r \in Req |-> "idle"]
    /\ rq = [r \in Req |-> NoRq]
    /\ resp = [r \in Req |-> NoResponse]
    /\ lb = NoLb
    /\ started = 0
    /\ accepted = << >>
    /\ failed = {}
    /\ attempts = << >>
    /\ canon = NoCanon

NextBoard == \E limit \in Limits, offset \in Offsets : GetLeaderboard(limit, offset)

SpecBoard == InitBoard /\ [][NextBoard]_vars

\* check_telegram_auth_raw as a function of the order of the blob's pairs:
\* blobs of up to MaxPairs pairs drawn from PairPool (keys that repeat
\* included), signed by the holder of K1 over the pairs in one order, and the
\* same pairs and hash in another order.
MaxPairs == 3

PairPool ==
    { Pair(<< "a" >>, << "1" >>), Pair(<< "a" >>, << "2" >>), Pair(<< "b" >>, << "1" >>),
      UserPair(JId7), UserPair(JId9), AuthDate }

\* The orders of n pairs.
PairOrders(n) ==
    { f \in [1..n -> 1..n] : \A i, j \in 1..n : f[i] = f[j] => i = j }

\* One call on the blob and one on its reordering; hash_first puts the hash
\* pair of the reordered blob in front instead of at the end.
Canonicalize(pairs, f, hash_first) ==
    /\ canon = NoCanon
    /\ LET reordered == [i \in 1..Len(pairs) |-> pairs[f[i]]]
           init_data == SignedRaw(pairs, K1)
           hash_pair == HashPrefix \o RecvHash(Split(init_data, "&"), << >>)[1]
           init_data_reordered ==
               IF hash_first THEN Join(<< hash_pair >> \o reordered, "&")
               ELSE Join(reordered \o << hash_pair >>, "&")
           tokens    == ConfiguredTokens(env)
       IN  canon' = [pairs |-> pairs, reordered |-> reordered,
                     data_check_string |-> DataCheckString(init_data),
                     data_check_string_reordered |-> DataCheckString(init_data_reordered),
                     result |-> check_telegram_auth_raw(init_data, tokens),
                     result_reordered |-> check_telegram_auth_raw(init_data_reordered, tokens)]
    /\ UNCHANGED << env, clock, LAST_SCORES, db, disk, pc, rq, resp, lb, started,
                    accepted, failed, attempts >>

NextCanon ==
    \E n \in 0..MaxPairs : \E pairs \in [1..n -> PairPool] :
        \E f \in PairOrders(n), hash_first \in BOOLEAN : Canonicalize(pairs, f, hash_first)

SpecCanon == Init /\ [][NextCanon]_vars

(***************************************************************************)
(* What the blobs are, by construction                                     *)
(***************************************************************************)

\* The credential whose holder computed the hash over the blob's wire text,
\* for the blobs that are made of key=value pairs and carry such a hash.
WireSigner(b) ==
    CASE b \in { "id42", "id42bob", "id7", "enc42", "nouser", "noid", "emptyobj",
                 "badjson", "number", "nullid", "emptyid", "abcid", "first42",
                 "last42", "emptyuser42", "long42", "id12345" } -> Some(K1)
      [] b = "id42k2"  -> Some(K2)
      [] b = "forged9" -> Some(K3)
      [] OTHER         -> None

\* The id the blob's user value names, as text.
BlobId(b) ==
    CASE b \in { "id42", "id42bob", "id42k2", "doc42", "enc42", "first42", "last42",
                 "emptyuser42", "long42" } -> Some(<< "4", "2" >>)
      [] b = "id12345" -> Some(<< "1", "2", "3", "4", "5" >>)
      [] b = "id7"     -> Some(<< "7" >>)
      [] b \in { "forged9", "tamper9", "nohash", "emptyhash" } -> Some(<< "9" >>)
      [] b = "nullid"  -> Some(<< "N", "o", "n", "e" >>)
      [] b = "emptyid" -> Some(<< >>)
      [] b = "abcid"   -> Some(<< "a", "b", "c" >>)
      [] OTHER         -> None

\* The blobs in the documented format: the user value is percent-encoded.
DocumentedBlobs == { "doc42", "enc42" }

\* The configured credentials of every environment, as a set.
TokenSets ==
    [e \in Envs |-> { ConfiguredTokens(e)[i] : i \in 1..Len(ConfiguredTokens(e)) }]

TokenSet(e) == TokenSets[e]

\* The ids of the blobs whose hash a configured credential produced.
VerifiedIdSets ==
    [e \in Envs |->
        { BlobId(b)[1] : b \in { x \in AllBlobs : /\ WireSigner(x) # None
                                                  /\ WireSigner(x)[1] \in TokenSets[e]
                                                  /\ BlobId(x) # None } }]

VerifiedIds(e) == VerifiedIdSets[e]

\* The best_score stored for id in table, 0 when it has no row.
StoredBest(table, id) ==
    IF \E i \in 1..Len(table) : table[i].id = id
    THEN table[CHOOSE i \in 1..Len(table) : table[i].id = id].best_score
    ELSE 0

\* The best score of the player as the request found it.
BestBefore(q) == IF q.row0 = << >> THEN 0 ELSE q.row0[1].best_score

\* The slot the next request takes.
NextSlot == CHOOSE r \in Req : /\ pc[r] \in { "idle", "done" }
                               /\ \A r2 \in 1..(r - 1) : pc[r2] \notin { "idle", "done" }

(***************************************************************************)
(* Claims                                                                  *)
(***************************************************************************)

\* C1: whatever the interleaving of the handler steps of two requests for one
\* player, the committed best_score of a player never decreases.
C1_BestNeverDecreases ==
    [][\A i \in 1..Len(disk) :
          /\ FindRow(disk', disk[i].id) # 0
          /\ StoredBest(disk', disk[i].id) >= disk[i].best_score]_vars

\* C2 (as amended): after non-overlapping submissions of a player that were all
\* answered 200, the stored best_score is max(0, s1..sn), committed; and the
\* stored best is never below a score answered 200.
C2_BestIsMaxOfAcceptedOrZero ==
    \A p \in DOMAIN accepted :
        /\ FindRow(db, p) # 0
        /\ StoredBest(db, p) >= accepted[p]
        /\ (Quiet /\ p \notin failed) =>
              /\ StoredBest(db, p) = Max2(0, accepted[p])
              /\ RowOf(disk, p) = RowOf(db, p)

\* C2 as stated: the stored best_score equals max(s1..sn).
C2_BestIsMaxOfAccepted ==
    \A p \in DOMAIN accepted :
        /\ FindRow(db, p) # 0
        /\ StoredBest(db, p) >= accepted[p]
        /\ (Quiet /\ p \notin failed) => StoredBest(db, p) = accepted[p]

\* C2's case: 100 was answered 200, then 80 was, and no submission failed.
C2_Witness ==
    \E r \in Req :
        /\ Quiet
        /\ pc[r] = "done" /\ resp[r].status = 200 /\ rq[r].score = 80
        /\ rq[r].user_id \in DOMAIN accepted
        /\ accepted[rq[r].user_id] = 100
        /\ rq[r].user_id \notin failed

\* C3: a submission inside the minimum interval is answered 200 with ok,
\* rate_limited and the player's best as it was.
C3_RateLimitedAnswers200 ==
    \A r \in Req :
        (pc[r] = "done" /\ rq[r].limited) =>
            /\ resp[r].status = 200
            /\ resp[r].ok
            /\ resp[r].rate_limited
            /\ resp[r].me.best_score = BestBefore(rq[r])

\* C4: a blob in the documented format, signed with a configured credential,
\* is not refused, and when it is answered 200 the best returned is the
\* greater of the claimed score and the best before.
C4_DocumentedBlobAccepted ==
    \A r \in Req :
        (/\ pc[r] = "done"
         /\ rq[r].blob \in DocumentedBlobs
         /\ K1 \in TokenSet(env)) =>
            /\ resp[r].status # 401
            /\ resp[r].status = 200 =>
                  resp[r].me.best_score = Max2(rq[r].score, BestBefore(rq[r]))

\* C5: after every step, every row and every ledger entry belongs to an id of
\* a blob whose hash a configured credential produced, and a step that answers
\* a request with 401 changes neither the table nor the ledger. (The table and
\* the ledger are empty in the initial state.)
C5_OnlyVerifiedIdentities ==
    [][/\ \A i \in 1..Len(db') : db'[i].id \in VerifiedIds(env')
       /\ \A i \in 1..Len(disk') : disk'[i].id \in VerifiedIds(env')
       /\ DOMAIN LAST_SCORES' \subseteq VerifiedIds(env')
       /\ (started' # started /\ pc'[NextSlot] = "done" /\ resp'[NextSlot].status = 401) =>
             (db' = db /\ disk' = disk /\ LAST_SCORES' = LAST_SCORES)]_vars

\* C5's case: a forged blob was refused while the table holds a player.
C5_Witness ==
    \E r \in Req :
        /\ pc[r] = "done" /\ rq[r].blob = "forged9" /\ resp[r].status = 401
        /\ Len(db) > 0
        /\ LAST_SCORES # << >>

\* The request passed authentication and the identity check.
Authenticated(q) == IdentityCheck(AuthTable[env][q.blob]) = "pass"

\* C6: a blob signed with credential K passes the signature check when K is
\* anywhere in the configured list (a blob of a well-formed identity is then
\* not refused at all), and is refused with hash_mismatch when K is not in it.
C6_AnyConfiguredCredentialVerifies ==
    \A r \in Req :
        (pc[r] # "idle" /\ WireSigner(rq[r].blob) # None) =>
            IF WireSigner(rq[r].blob)[1] \in TokenSet(env)
            THEN /\ ~(/\ pc[r] = "done"
                      /\ resp[r].status = 401
                      /\ resp[r].reason \in { "hash_mismatch", "no_hash" })
                 /\ rq[r].blob \in GoodBlobs => ~(pc[r] = "done" /\ resp[r].status = 401)
            ELSE /\ pc[r] = "done"
                 /\ resp[r].status = 401
                 /\ resp[r].reason = "hash_mismatch"

\* C6's case: the blob's credential is the second of two configured ones,
\* and the request went on past authentication.
C6_Witness ==
    \E r \in Req :
        /\ rq[r].blob = "id42"
        /\ ConfiguredTokens(env) = << K2, K1 >>
        /\ pc[r] = "select"

\* C7: after a request that met a storage error is answered 500, the player's
\* row is what it was before the request, on the connection and on disk, and
\* no committed row holds more than what requests answered 200 have claimed.
C7_FailedRequestNotCommitted ==
    /\ \A r \in Req :
          (pc[r] = "done" /\ resp[r].status = 500 /\ Authenticated(rq[r])) =>
              /\ RowOf(db, rq[r].user_id) = rq[r].row0
              /\ RowOf(disk, rq[r].user_id) = rq[r].row0
    /\ \A i \in 1..Len(disk) :
          /\ disk[i].id \in DOMAIN accepted
          /\ disk[i].best_score <= Max2(0, accepted[disk[i].id])

\* C8: when the claimed score is not greater than the best the handler read,
\* the write leaves best_score and updated_at of the player's row as they
\* were, and the 200 response carries that best.
C8_NotGreaterLeavesRow ==
    [][\A r \in Req :
          /\ (/\ pc[r] = "execute" /\ pc'[r] = "commit"
              /\ rq[r].score <= rq[r].prev_best
              /\ FindRow(db, rq[r].user_id) # 0) =>
                 LET i == FindRow(db, rq[r].user_id)
                 IN  /\ Len(db') = Len(db)
                     /\ db'[i].id = db[i].id
                     /\ db'[i].best_score = db[i].best_score
                     /\ db'[i].updated_at = db[i].updated_at
          /\ (/\ pc[r] = "commit" /\ pc'[r] = "done" /\ resp'[r].status = 200
              /\ rq[r].score <= rq[r].prev_best) =>
                 resp'[r].me.best_score = rq[r].prev_best]_vars

\* C8's case: a score equal to the stored best was submitted a second later
\* and answered 200.
C8_Witness ==
    \E r \in Req :
        /\ pc[r] = "done" /\ resp[r].status = 200
        /\ rq[r].row0 # << >>
        /\ rq[r].score = rq[r].row0[1].best_score
        /\ rq[r].now_dt > rq[r].row0[1].updated_at
        /\ RowOf(db, rq[r].user_id)[1].updated_at = rq[r].row0[1].updated_at

Min2(a, b) == IF a <= b THEN a ELSE b

\* The rows of table at the 0-based positions offset .. offset + n - 1 of
\* the descending order.
Window(table, offset, n) ==
    LET sorted == OrderByBestDesc(table)
        first  == Max2(offset, 0) + 1
        last   == Min2(offset + n, Len(sorted))
    IN  IF last < first THEN << >>
        ELSE [i \in 1..(last - first + 1) |-> Item(sorted[first + i - 1])]

\* C9: the answer of GET /leaderboard is the window
\* [offset, offset + min(limit, 200)) of the descending order, and never holds
\* more than 200 items.
C9_WindowOfAtMostCap ==
    lb # NoLb =>
        /\ lb.items = Window(db, lb.offset, Min2(lb.limit, 200))
        /\ Len(lb.items) <= 200

\* A non-empty text of digits.
IsNumericId(id) == Len(id) > 0 /\ \A i \in 1..Len(id) : IsDigit(id[i])

\* C10: a correctly signed blob whose user value has no id, or an id that is
\* null, empty or not numeric, is answered 401 invalid_init_data, and every
\* row's id is a non-empty text of digits.
C10_NonNumericIdRefused ==
    /\ \A r \in Req :
          (/\ pc[r] # "idle"
           /\ rq[r].blob \in OddIdBlobs \cup { "noid", "emptyobj" }
           /\ K1 \in TokenSet(env)) =>
              /\ pc[r] = "done"
              /\ resp[r].status = 401
              /\ resp[r].error = "invalid_init_data"
    /\ \A i \in 1..Len(db) : IsNumericId(db[i].id)

\* C11 (as amended): when a submission that overlaps no other arrives for a
\* player with no row and is answered 200, the row committed for the player has
\* best_score = the claimed score when that is 0 or more, and 0 when it is
\* below 0, and me.best_score is that same value.
C11_FirstInsertStoresScoreOrZero ==
    [][\A r \in Req :
          (/\ pc[r] = "commit" /\ pc'[r] = "done" /\ resp'[r].status = 200
           /\ rq[r].row0 = << >>) =>
              /\ FindRow(disk', rq[r].user_id) # 0
              /\ StoredBest(disk', rq[r].user_id) = Max2(rq[r].score, 0)
              /\ resp'[r].me.best_score = Max2(rq[r].score, 0)]_vars

\* C11 as stated: the row's best_score and me.best_score are the claimed
\* score, whatever it is.
C11_FirstInsertStoresScore ==
    [][\A r \in Req :
          (/\ pc[r] = "commit" /\ pc'[r] = "done" /\ resp'[r].status = 200
           /\ rq[r].row0 = << >>) =>
              /\ FindRow(disk', rq[r].user_id) # 0
              /\ StoredBest(disk', rq[r].user_id) = rq[r].score
              /\ resp'[r].me.best_score = rq[r].score]_vars

\* C11's case: a first submission claiming a score below 0 was answered 200
\* and the player has a row.
C11_Witness ==
    \E r \in Req :
        /\ pc[r] = "done" /\ resp[r].status = 200
        /\ rq[r].row0 = << >> /\ rq[r].score < 0
        /\ FindRow(disk, rq[r].user_id) # 0
        /\ resp[r].me.best_score = 0

\* C12: every row's best_score, pending or committed, is 0 or more.
C12_BestScoreNotNegative ==
    /\ \A i \in 1..Len(db) : db[i].best_score >= 0
    /\ \A i \in 1..Len(disk) : disk[i].best_score >= 0

\* C12's case: a score below 0 was submitted, answered 200, and the player's
\* row is committed.
C12_Witness ==
    \E r \in Req :
        /\ pc[r] = "done" /\ resp[r].status = 200 /\ rq[r].score < 0
        /\ FindRow(disk, rq[r].user_id) # 0
        /\ FindRow(db, rq[r].user_id) # 0

\* C13: a blob and any reordering of its pairs have the same canonical string
\* and the same verification outcome, also when a key occurs more than once.
C13_OrderIndependent ==
    canon # NoCanon =>
        /\ canon.data_check_string = canon.data_check_string_reordered
        /\ canon.result = canon.result_reordered

\* C14: a submission that the limiter turns away sets the player's last-seen
\* time to its own time, and a submission that comes less than the minimum
\* interval after the player's previous one (passed or turned away) is turned
\* away.
C14_SlidingWindow ==
    [][started' # started =>
          LET r == NextSlot
              p == rq'[r].user_id
          IN  Authenticated(rq'[r]) =>
                 /\ rq'[r].limited => LAST_SCORES'[p] = clock
                 /\ (/\ p \in DOMAIN attempts
                     /\ clock - attempts[p][Len(attempts[p])].at
                           < MIN_INTERVAL_SECONDS * TicksPerSecond) => rq'[r].limited]_vars

\* C16: as long as no request has met a storage error, the best_score of a
\* 200 response is the best_score committed for the id by the commit of that
\* request.
C16_ResponseIsStoredBest ==
    [][\A r \in Req :
          (/\ pc[r] = "commit" /\ pc'[r] = "done" /\ resp'[r].status = 200
           /\ failed = {}) =>
              resp'[r].me.best_score = StoredBest(disk', rq[r].user_id)]_vars

\* The rows of table whose id is not p, as a set.
RowsOfOthers(table, p) == { table[i] : i \in { j \in 1..Len(table) : table[j].id # p } }

\* The entries of the ledger whose id is not p.
EntriesOfOthers(last_scores, p) ==
    { << q, last_scores[q] >> : q \in DOMAIN last_scores \ { p } }

\* C17: a step of a request of player p leaves the rows of the other players
\* as they were, pending and committed, and their ledger entries too; and a
\* request is turned away by the limiter only on its own player's entry.
C17_PlayersIndependent ==
    [][\A r \in Req :
          (pc'[r] # pc[r] \/ (started' # started /\ r = NextSlot)) =>
              LET p == rq'[r].user_id
              IN  /\ RowsOfOthers(db', p) = RowsOfOthers(db, p)
                  /\ RowsOfOthers(disk', p) = RowsOfOthers(disk, p)
                  /\ EntriesOfOthers(LAST_SCORES', p) = EntriesOfOthers(LAST_SCORES, p)
                  /\ (started' # started /\ rq'[r].limited) =>
                        /\ p \in DOMAIN LAST_SCORES
                        /\ clock - LAST_SCORES[p] < MIN_INTERVAL_SECONDS * TicksPerSecond]_vars

\* The display length the spec bounds display_name by. The spec gives no
\* number; 11 is the length of the longest fallback, "Player " and 4 digits.
DisplayLen == 11

Player == << "P", "l", "a", "y", "e", "r" >>

\* The name the blob's user carries, first of username, first_name and
\* last_name that is not empty; << >> when it carries none.
BlobName(b) ==
    CASE b = "id42bob" -> << "b", "o", "b" >>
      [] b \in { "first42", "emptyuser42" } -> NameAl
      [] b = "last42"  -> NameLee
      [] b = "long42"  -> NameLong
      [] OTHER         -> << >>

\* C15: the display_name of a submission is the user's username, else
\* first_name, else last_name, cut to the display length, else "Player" and the
\* last 4 digits of the id; it is never longer than the display length; and it
\* is the display_name written to the row and returned.
C15_DisplayNameBounded ==
    \A r \in Req :
        (pc[r] # "idle" /\ rq[r].blob \in NameBlobs /\ Authenticated(rq[r])) =>
            LET d    == rq[r].display_name
                name == BlobName(rq[r].blob)
                id   == BlobId(rq[r].blob)[1]
            IN  /\ d.t = "str"
                /\ Len(d.v) <= DisplayLen
                /\ IF name # << >> THEN d.v = Take(name, DisplayLen)
                   ELSE d.v \in { Player \o Last4(id), Player \o << " " >> \o Last4(id) }
                /\ pc[r] = "commit" => RowOf(db, rq[r].user_id)[1].display_name = d
                /\ (pc[r] = "done" /\ resp[r].status = 200) => resp[r].me.display_name = d

\* C18: for every player, any two submissions that passed the limiter did so
\* at times at least the minimum interval apart, and the ledger holds the time
\* of the last one that passed.
C18_PassedAttemptsApart ==
    \A p \in DOMAIN attempts :
        LET passed == { i \in 1..Len(attempts[p]) : ~attempts[p][i].limited }
        IN  /\ \A i, j \in passed :
                  i < j => attempts[p][j].at - attempts[p][i].at
                              >= MIN_INTERVAL_SECONDS * TicksPerSecond
            /\ passed # {} =>
                  /\ p \in DOMAIN LAST_SCORES
                  /\ \E i \in passed : /\ \A j \in passed : j <= i
                                       /\ LAST_SCORES[p] = attempts[p][i].at

\* C18's case: two requests of one player are in flight together, both past
\* the limiter, and a third was turned away.
C18_Witness ==
    \E r1, r2 \in Req :
        /\ r1 # r2
        /\ pc[r1] \notin { "idle", "done" } /\ pc[r2] \notin { "idle", "done" }
        /\ rq[r1].user_id = rq[r2].user_id
        /\ \E i \in 1..Len(attempts[rq[r1].user_id]) : attempts[rq[r1].user_id][i].limited

\* C19: the step of a submission that the limiter turns away leaves the table
\* as it is, pending and committed, and ends the request: it takes no step
\* at the store afterwards.
C19_LimitedLeavesStore ==
    [][\A r \in Req :
          /\ (started' # started /\ r = NextSlot /\ rq'[r].limited) =>
                (db' = db /\ disk' = disk /\ pc'[r] = "done")
          /\ (rq[r].limited /\ pc'[r] # pc[r]) =>
                (started' # started /\ r = NextSlot)]_vars

\* C19's case: a submission claiming more than the stored best was turned
\* away, and the player's row is as it was.
C19_Witness ==
    \E r \in Req :
        /\ pc[r] = "done" /\ rq[r].limited
        /\ rq[r].row0 # << >>
        /\ rq[r].score > rq[r].row0[1].best_score
        /\ RowOf(db, rq[r].user_id) = rq[r].row0
        /\ RowOf(disk, rq[r].user_id) = rq[r].row0

====
